---- MODULE Spec2Model ----
(***************************************************************************)
(* MergedEnvironmentVariableCollection                                     *)
(* (src/vs/platform/terminal/common/environmentVariableCollection.ts):     *)
(* the constructor that merges the extensions' collections, the            *)
(* asynchronous applyToProcessEnvironment, and diff.                       *)
(*                                                                         *)
(* Representation.  A JavaScript Map is a sequence of entries in insertion *)
(* order.  Variable names and environment keys are sequences of            *)
(* one-character strings, so that toLowerCase is computed character by     *)
(* character; values are strings, concatenated with \o.  `undefined` is    *)
(* the record Undefined.                                                   *)
(***************************************************************************)
EXTENDS Integers, Sequences, FiniteSets, TLC

VARIABLES
    pc,                    \* phase of the scenario around the object
    collections,           \* constructor argument `collections` (this)
    owningWorkspace,       \* constructor argument `owningWorkspace` (this)
    variableMap,           \* this.variableMap
    otherCollections,      \* the same three fields of the `other` object of diff
    otherOwningWorkspace,
    otherVariableMap,
    isWindows,             \* platform flag read by applyToProcessEnvironment
    env,                   \* the IProcessEnvironment being mutated
    env0,                  \* the environment as it was passed to apply
    variableResolver,      \* TRUE iff a resolver was passed to apply
    lowerToActualVariableNames,
    position,              \* <<i, j>>: variable i of variableMap, mutator j
    outstanding,           \* resolver calls started and not yet settled
    resolverLog,           \* every resolver call and every write to env, in order
    diffResult,            \* this.diff(other)
    reverseDiffResult,     \* other.diff(this)
    selfDiffResult         \* this.diff(this)

vars == <<pc, collections, owningWorkspace, variableMap, otherCollections,
          otherOwningWorkspace, otherVariableMap, isWindows, env, env0,
          variableResolver, lowerToActualVariableNames, position, outstanding,
          resolverLog, diffResult, reverseDiffResult,
          selfDiffResult>>

-----------------------------------------------------------------------------
(* Values of the program                                                   *)

Undefined == [undefined |-> TRUE]

\* enum EnvironmentVariableMutatorType
TypeAppend == "Append"
TypePrepend == "Prepend"
TypeReplace == "Replace"
EnvironmentVariableMutatorType == {TypeAppend, TypePrepend, TypeReplace}

\* IWorkspaceFolder, reduced to the two fields the code reads.
WorkspaceFolder(fsPath, index) == [uri |-> [fsPath |-> fsPath], index |-> index]

\* mutator.scope: undefined, or an object whose workspaceFolder may be undefined.
Scope(workspaceFolder) == [workspaceFolder |-> workspaceFolder]

Mutator(variable, type, value, scope) ==
    [variable |-> variable, type |-> type, value |-> value, scope |-> scope]

-----------------------------------------------------------------------------
(* Insertion-ordered Map<string, T> as a sequence of [key, value] entries  *)

MapIndex(map, key) ==
    IF \E i \in 1..Len(map) : map[i].key = key
    THEN CHOOSE i \in 1..Len(map) : map[i].key = key
    ELSE 0

MapHas(map, key) == MapIndex(map, key) /= 0

MapGet(map, key) ==
    IF MapHas(map, key) THEN map[MapIndex(map, key)].value ELSE Undefined

\* Map.prototype.set: an existing key keeps its place, a new key goes last.
MapSet(map, key, value) ==
    IF MapHas(map, key)
    THEN [map EXCEPT ![MapIndex(map, key)].value = value]
    ELSE Append(map, [key |-> key, value |-> value])

\* Map.prototype.get where the caller tests the result against undefined:
\* the value is boxed, so that it can be compared with Undefined.
Some(value) == [some |-> value]
MapLookup(map, key) ==
    IF MapHas(map, key) THEN Some(MapGet(map, key)) ELSE Undefined

MapKeys(map) == [i \in 1..Len(map) |-> map[i].key]

MapSize(map) == Len(map)

-----------------------------------------------------------------------------
(* constructor (lines 25-71)                                               *)

\* mutator.scope?.workspaceFolder
ScopeWorkspaceFolder(mutator) ==
    IF mutator.scope = Undefined THEN Undefined ELSE mutator.scope.workspaceFolder

\* The filter with the comparison of line 42 turned around.
ScopeFilteredSame(owning, mutator) ==
    /\ owning /= Undefined
    /\ ScopeWorkspaceFolder(mutator) /= Undefined
    /\ ScopeWorkspaceFolder(mutator).uri.fsPath = owning.uri.fsPath

\* Lines 39-46: the mutator is scoped to a folder other than the owning one.
ScopeFiltered(owning, mutator) ==
    /\ owning /= Undefined
    /\ ScopeWorkspaceFolder(mutator) /= Undefined
    /\ ScopeWorkspaceFolder(mutator).uri.fsPath /= owning.uri.fsPath

\* The test of line 54 looking at the wrong end of the entry.
ReplaceShortCircuitsLast(entry) ==
    Len(entry) > 0 /\ entry[Len(entry)].type = TypeReplace

\* The test of line 54 with its length off by one.
ReplaceShortCircuitsOffByOne(entry) ==
    Len(entry) > 1 /\ entry[1].type = TypeReplace

\* Line 54: the entry already starts with a Replace.
ReplaceShortCircuits(entry) ==
    Len(entry) > 0 /\ entry[1].type = TypeReplace

\* push in the place of unshift.
Push(entry, extensionIdentifier, mutator) ==
    entry \o << [extensionIdentifier |-> extensionIdentifier,
                 value |-> mutator.value,
                 type |-> mutator.type,
                 scope |-> mutator.scope,
                 variable |-> mutator.variable] >>

\* Lines 60-66: entry.unshift({extensionIdentifier, value, type, scope, variable}).
Unshift(entry, extensionIdentifier, mutator) ==
    << [extensionIdentifier |-> extensionIdentifier,
        value |-> mutator.value,
        type |-> mutator.type,
        scope |-> mutator.scope,
        variable |-> mutator.variable] >> \o entry

\* The pass with the entry created (lines 47-50) ahead of the scope filter.
MergeMutatorEntryFirst(map, owning, extensionIdentifier, mutator) ==
    LET created == IF MapHas(map, mutator.variable) THEN map
                   ELSE MapSet(map, mutator.variable, <<>>)
        entry == MapGet(created, mutator.variable)
    IN  IF ScopeFiltered(owning, mutator) THEN created
        ELSE IF ReplaceShortCircuits(entry) THEN created
        ELSE MapSet(created, mutator.variable,
                    Unshift(entry, extensionIdentifier, mutator))

\* One pass of the while loop (lines 36-68) for one mutator.
MergeMutator(map, owning, extensionIdentifier, mutator) ==
    IF ScopeFiltered(owning, mutator) THEN map
    ELSE LET created == IF MapHas(map, mutator.variable) THEN map
                        ELSE MapSet(map, mutator.variable, <<>>)
             entry == MapGet(created, mutator.variable)
         IN  IF ReplaceShortCircuits(entry) THEN created
             ELSE MapSet(created, mutator.variable,
                         Unshift(entry, extensionIdentifier, mutator))

\* The while loop over collection.map.entries() (lines 33-69).
RECURSIVE MergeCollection(_, _, _, _)
MergeCollection(map, owning, extensionIdentifier, entries) ==
    IF entries = <<>> THEN map
    ELSE MergeCollection(
             MergeMutator(map, owning, extensionIdentifier, Head(entries).value),
             owning, extensionIdentifier, Tail(entries))

\* collections.forEach (lines 32-70).
RECURSIVE MergeCollections(_, _, _)
MergeCollections(map, owning, colls) ==
    IF colls = <<>> THEN map
    ELSE MergeCollections(
             MergeCollection(map, owning, Head(colls).key, Head(colls).value.map),
             owning, Tail(colls))

\* new MergedEnvironmentVariableCollection(collections, owningWorkspace).variableMap
Constructor(colls, owning) == MergeCollections(<<>>, owning, colls)

-----------------------------------------------------------------------------
(* applyToProcessEnvironment (lines 73-101)                                *)

UpperCaseLetters ==
    <<"A","B","C","D","E","F","G","H","I","J","K","L","M",
      "N","O","P","Q","R","S","T","U","V","W","X","Y","Z">>

LowerCaseLetters ==
    <<"a","b","c","d","e","f","g","h","i","j","k","l","m",
      "n","o","p","q","r","s","t","u","v","w","x","y","z">>

LowerChar(c) ==
    IF \E i \in 1..Len(UpperCaseLetters) : UpperCaseLetters[i] = c
    THEN LowerCaseLetters[CHOOSE i \in 1..Len(UpperCaseLetters) : UpperCaseLetters[i] = c]
    ELSE c

\* String.prototype.toLowerCase (lines 77 and 80)
toLowerCase(str) == [i \in 1..Len(str) |-> LowerChar(str[i])]

\* lowerToActualVariableNames is created by the literal {} (line 76), so a
\* lookup of a name it does not own falls through to Object.prototype.  Of
\* the inherited names only "constructor" is all lower case among the names
\* of the model; its value is the function Object.
ObjectPrototypeNames == { <<"c","o","n","s","t","r","u","c","t","o","r">> }

\* A non-string used as a property key is converted with String(): for the
\* function Object that is "function Object() { [native code] }".
ObjectFunctionAsKey ==
    <<"f","u","n","c","t","i","o","n"," ","O","b","j","e","c","t","(",")"," ",
      "{"," ","[","n","a","t","i","v","e"," ","c","o","d","e","]"," ","}">>

\* Lines 76-77: Object.keys(env).forEach(e => lower[e.toLowerCase()] = e)
RECURSIVE BuildLowerToActual(_, _)
BuildLowerToActual(lower, keys) ==
    IF keys = <<>> THEN lower
    ELSE BuildLowerToActual(MapSet(lower, toLowerCase(Head(keys)), Head(keys)),
                            Tail(keys))

\* Line 80: isWindows ? lower[variable.toLowerCase()] || variable : variable
ActualVariable(windows, lower, variable) ==
    IF ~windows THEN variable
    ELSE LET lowerKey == toLowerCase(variable)
         IN  IF MapHas(lower, lowerKey)
             THEN IF Len(MapGet(lower, lowerKey)) > 0
                  THEN MapGet(lower, lowerKey) ELSE variable
             ELSE IF lowerKey \in ObjectPrototypeNames
                  THEN ObjectFunctionAsKey ELSE variable

\* env[actualVariable] || ''
EnvOrEmpty(e, key) == IF MapHas(e, key) THEN MapGet(e, key) ELSE ""

\* The switch with a Replace that only fills in a variable that is not set.
ApplyMutatorUnlessSet(e, actualVariable, type, value) ==
    CASE type = TypeAppend ->
           MapSet(e, actualVariable, EnvOrEmpty(e, actualVariable) \o value)
      [] type = TypePrepend ->
           MapSet(e, actualVariable, value \o EnvOrEmpty(e, actualVariable))
      [] type = TypeReplace ->
           MapSet(e, actualVariable,
                  IF EnvOrEmpty(e, actualVariable) = "" THEN value
                  ELSE EnvOrEmpty(e, actualVariable))

\* The switch of lines 88-98.
ApplyMutator(e, actualVariable, type, value) ==
    CASE type = TypeAppend ->
           MapSet(e, actualVariable, EnvOrEmpty(e, actualVariable) \o value)
      [] type = TypePrepend ->
           MapSet(e, actualVariable, value \o EnvOrEmpty(e, actualVariable))
      [] type = TypeReplace ->
           MapSet(e, actualVariable, value)

\* Loop positions: <<i, j>> is mutator j of the i-th entry of variableMap.
RECURSIVE Normalize(_, _)
Normalize(map, pos) ==
    IF pos[1] > Len(map) THEN <<Len(map) + 1, 1>>
    ELSE IF pos[2] > Len(map[pos[1]].value) THEN Normalize(map, <<pos[1] + 1, 1>>)
    ELSE pos

FirstPosition(map) == Normalize(map, <<1, 1>>)
NextPosition(map, pos) == Normalize(map, <<pos[1], pos[2] + 1>>)
Exhausted(map, pos) == pos[1] > Len(map)
MutatorAt(map, pos) == map[pos[1]].value[pos[2]]

CallEvent(pos, argument) ==
    [op |-> "call", position |-> pos, key |-> <<>>, value |-> argument]
WriteEvent(pos, key, value) ==
    [op |-> "write", position |-> pos, key |-> key, value |-> value]

\* The calls a loop would start that awaited the mutators of a variable
\* together instead of one by one.
ResolverCallsTogether(map, pos) ==
    IF Exhausted(map, pos) THEN <<>>
    ELSE [j \in 1..(Len(map[pos[1]].value) - pos[2] + 1) |->
            CallEvent(<<pos[1], pos[2] + j - 1>>,
                      map[pos[1]].value[pos[2] + j - 1].value)]

\* Line 82 with a resolver: the calls started when the loop reaches `pos`.
ResolverCalls(map, pos) ==
    IF Exhausted(map, pos) THEN <<>>
    ELSE << CallEvent(pos, MutatorAt(map, pos).value) >>

\* Lines 88-98 for the mutator at `pos` with its effective value.
ApplyAt(map, windows, lower, e, pos, value) ==
    ApplyMutator(e, ActualVariable(windows, lower, map[pos[1]].key),
                 MutatorAt(map, pos).type, value)

\* Lines 79-100 without a resolver: nothing is awaited, the loops run on.
RECURSIVE RunWithoutResolver(_, _, _, _, _)
RunWithoutResolver(map, windows, lower, run, pos) ==
    IF Exhausted(map, pos) THEN run
    ELSE LET value == MutatorAt(map, pos).value
             key == ActualVariable(windows, lower, map[pos[1]].key)
         IN  RunWithoutResolver(map, windows, lower,
                 [env |-> ApplyAt(map, windows, lower, run.env, pos, value),
                  log |-> Append(run.log, WriteEvent(pos, key, value))],
                 NextPosition(map, pos))

-----------------------------------------------------------------------------
(* diff (lines 103-140) and its two helpers (lines 143-191)                *)

\* The extension identifiers of an array of mutators (lines 153-154).
ExtensionsOf(mutators) ==
    { mutators[i].extensionIdentifier : i \in 1..Len(mutators) }

\* The test of line 159 without its negation.
KeepPresent(mutator, otherMutatorExtensions) ==
    mutator.extensionIdentifier \in otherMutatorExtensions

\* Line 159
KeepMissing(mutator, otherMutatorExtensions) ==
    mutator.extensionIdentifier \notin otherMutatorExtensions

\* Lines 157-162: the mutators of `current` whose extension is not in the set.
RECURSIVE FilterMissing(_, _)
FilterMissing(current, otherMutatorExtensions) ==
    IF current = <<>> THEN <<>>
    ELSE (IF KeepMissing(Head(current), otherMutatorExtensions)
          THEN <<Head(current)>> ELSE <<>>)
         \o FilterMissing(Tail(current), otherMutatorExtensions)

\* getMissingMutatorsFromArray (lines 143-165); `other` and the result are
\* Undefined or Some(array).
getMissingMutatorsFromArray(current, other) ==
    IF other = Undefined THEN Some(current)
    ELSE LET result == FilterMissing(current, ExtensionsOf(other.some))
         IN  IF Len(result) = 0 THEN Undefined ELSE Some(result)

\* Lines 177-178: Map from extension identifier to mutator; a later mutator
\* of the same extension overwrites an earlier one.
RECURSIVE ByExtension(_, _)
ByExtension(map, other) ==
    IF other = <<>> THEN map
    ELSE ByExtension(MapSet(map, Head(other).extensionIdentifier, Head(other)),
                     Tail(other))

\* mutator.scope?.workspaceFolder?.index, boxed so that undefined compares
ScopeIndex(mutator) ==
    IF ScopeWorkspaceFolder(mutator) = Undefined THEN Undefined
    ELSE [index |-> ScopeWorkspaceFolder(mutator).index]

\* The inequality of line 184.
MutatorsDiffer(mutator, otherMutator) ==
    \/ mutator.type /= otherMutator.type
    \/ mutator.value /= otherMutator.value
    \/ ScopeIndex(mutator) /= ScopeIndex(otherMutator)

\* Line 186 pushing the old mutator.
ChangedEntryOld(mutator, otherMutator) == mutator

\* Line 186: what is reported for a changed mutator.
ChangedEntry(mutator, otherMutator) == otherMutator

\* Lines 181-188
RECURSIVE FilterChanged(_, _)
FilterChanged(current, otherMutatorExtensions) ==
    IF current = <<>> THEN <<>>
    ELSE LET mutator == Head(current)
             has == MapHas(otherMutatorExtensions, mutator.extensionIdentifier)
             otherMutator == MapGet(otherMutatorExtensions, mutator.extensionIdentifier)
         IN  (IF has /\ MutatorsDiffer(mutator, otherMutator)
              THEN <<ChangedEntry(mutator, otherMutator)>> ELSE <<>>)
             \o FilterChanged(Tail(current), otherMutatorExtensions)

\* getChangedMutatorsFromArray (lines 167-191)
getChangedMutatorsFromArray(current, other) ==
    IF other = Undefined THEN Undefined
    ELSE LET result == FilterChanged(current, ByExtension(<<>>, other.some))
         IN  IF Len(result) = 0 THEN Undefined ELSE Some(result)

\* "Find added" (lines 109-115): iterates other.variableMap.
RECURSIVE FindAdded(_, _, _)
FindAdded(added, thisMap, otherEntries) ==
    IF otherEntries = <<>> THEN added
    ELSE LET variable == Head(otherEntries).key
             result == getMissingMutatorsFromArray(Head(otherEntries).value,
                                                   MapLookup(thisMap, variable))
         IN  FindAdded(IF result /= Undefined THEN MapSet(added, variable, result.some)
                       ELSE added,
                       thisMap, Tail(otherEntries))

\* "Find removed" (lines 118-124): iterates this.variableMap.
RECURSIVE FindRemoved(_, _, _)
FindRemoved(removed, thisEntries, otherMap) ==
    IF thisEntries = <<>> THEN removed
    ELSE LET variable == Head(thisEntries).key
             result == getMissingMutatorsFromArray(Head(thisEntries).value,
                                                   MapLookup(otherMap, variable))
         IN  FindRemoved(IF result /= Undefined THEN MapSet(removed, variable, result.some)
                         ELSE removed,
                         Tail(thisEntries), otherMap)

\* "Find changed" (lines 127-133): iterates this.variableMap.
RECURSIVE FindChanged(_, _, _)
FindChanged(changed, thisEntries, otherMap) ==
    IF thisEntries = <<>> THEN changed
    ELSE LET variable == Head(thisEntries).key
             result == getChangedMutatorsFromArray(Head(thisEntries).value,
                                                   MapLookup(otherMap, variable))
         IN  FindChanged(IF result /= Undefined THEN MapSet(changed, variable, result.some)
                         ELSE changed,
                         Tail(thisEntries), otherMap)

\* diff without lines 135-137.
DiffReturnObject(added, changed, removed) ==
    [added |-> added, changed |-> changed, removed |-> removed]

\* Lines 135-139: undefined when the three maps are empty.
DiffReturn(added, changed, removed) ==
    IF MapSize(added) = 0 /\ MapSize(changed) = 0 /\ MapSize(removed) = 0
    THEN Undefined
    ELSE [added |-> added, changed |-> changed, removed |-> removed]

\* thisMap.diff(otherMap)
diff(thisMap, otherMap) ==
    DiffReturn(FindAdded(<<>>, thisMap, otherMap),
               FindChanged(<<>>, thisMap, otherMap),
               FindRemoved(<<>>, thisMap, otherMap))

-----------------------------------------------------------------------------
(* Inputs: names, folders and the collections handed to the constructor    *)

FOO == <<"F","O","O">>
PathMixed == <<"P","a","t","h">>
PathUpper == <<"P","A","T","H">>
PathLower == <<"p","a","t","h">>
ConstructorName == <<"c","o","n","s","t","r","u","c","t","o","r">>

Folder1 == WorkspaceFolder("/w1", 0)
Folder2 == WorkspaceFolder("/w2", 1)

\* Extension identifiers, in the order in which new extensions register.
ExtensionOrder == <<"ext.a", "ext.b", "ext.c">>
Extensions == { ExtensionOrder[i] : i \in 1..Len(ExtensionOrder) }

\* The extension is registered already or is the next one to register.
MayContribute(colls, extensionIdentifier) ==
    \/ MapHas(colls, extensionIdentifier)
    \/ /\ Len(colls) < Len(ExtensionOrder)
       /\ extensionIdentifier = ExtensionOrder[Len(colls) + 1]

\* IEnvironmentVariableCollection: { map }, the map keyed by variable name,
\* so that an extension holds at most one mutator per variable.
CollectionOf(colls, extensionIdentifier) ==
    IF MapHas(colls, extensionIdentifier) THEN MapGet(colls, extensionIdentifier)
    ELSE [map |-> <<>>]

\* An extension puts a mutator into its collection; an extension not seen
\* before is registered behind the others.
CollectionsSet(colls, extensionIdentifier, mutator) ==
    MapSet(colls, extensionIdentifier,
           [map |-> MapSet(CollectionOf(colls, extensionIdentifier).map,
                           mutator.variable, mutator)])

Contributes(colls, extensionIdentifier, variable) ==
    MapHas(CollectionOf(colls, extensionIdentifier).map, variable)

RECURSIVE TotalMutators(_)
TotalMutators(colls) ==
    IF colls = <<>> THEN 0
    ELSE Len(Head(colls).value.map) + TotalMutators(Tail(colls))

Mutators(variables, types, values, scopes) ==
    { Mutator(variable, type, value, scope) :
        variable \in variables, type \in types, value \in values, scope \in scopes }

\* Bounds of the merge scenarios.
MaxMergeMutators == 3
MergeMutators ==
    Mutators({FOO, PathMixed}, EnvironmentVariableMutatorType, {"a"},
             {Undefined, Scope(Undefined), Scope(Folder1), Scope(Folder2)})
\* Merged without an owning workspace or for the first folder; the mutators
\* are scoped to either folder.
MergeOwners == {Undefined, Folder1}

-----------------------------------------------------------------------------
(* Scenario 1: collections are filled, then merged                         *)

Idle ==
    /\ collections = <<>>
    /\ owningWorkspace = Undefined
    /\ variableMap = <<>>
    /\ otherCollections = <<>>
    /\ otherOwningWorkspace = Undefined
    /\ otherVariableMap = <<>>
    /\ env = <<>>
    /\ env0 = <<>>
    /\ variableResolver = FALSE
    /\ lowerToActualVariableNames = Undefined
    /\ position = <<1, 1>>
    /\ outstanding = <<>>
    /\ resolverLog = <<>>
    /\ diffResult = Undefined
    /\ reverseDiffResult = Undefined
    /\ selfDiffResult = Undefined

applyVars == <<isWindows, env, env0, variableResolver, lowerToActualVariableNames,
               position, outstanding, resolverLog>>
otherVars == <<otherCollections, otherOwningWorkspace, otherVariableMap>>
diffVars == <<diffResult, reverseDiffResult, selfDiffResult>>

InitMerge ==
    /\ pc = "collecting"
    /\ isWindows = FALSE
    /\ Idle

RegisterMerge ==
    /\ pc = "collecting"
    /\ TotalMutators(collections) < MaxMergeMutators
    /\ \E extensionIdentifier \in Extensions, mutator \in MergeMutators :
          /\ MayContribute(collections, extensionIdentifier)
          /\ ~Contributes(collections, extensionIdentifier, mutator.variable)
          /\ collections' = CollectionsSet(collections, extensionIdentifier, mutator)
    /\ UNCHANGED <<pc, owningWorkspace, variableMap, otherVars, applyVars, diffVars>>

ConstructMerge ==
    /\ pc = "collecting"
    /\ \E owning \in MergeOwners :
          /\ owningWorkspace' = owning
          /\ variableMap' = Constructor(collections, owning)
    /\ pc' = "merged"
    /\ UNCHANGED <<collections, otherVars, applyVars, diffVars>>

NextMerge == RegisterMerge \/ ConstructMerge

SpecMerge == InitMerge /\ [][NextMerge]_vars

-----------------------------------------------------------------------------
(* Scenario 2: collections are filled and merged, the result is applied    *)

\* Bounds of the apply scenarios.
MaxApplyMutators == 3
\* Each extension contributes a value of its own, so that the order in
\* which the mutators were applied can be read off the result.
ApplyValue(extensionIdentifier) ==
    CASE extensionIdentifier = "ext.a" -> "a"
      [] extensionIdentifier = "ext.b" -> "b"
      [] OTHER -> "c"
ApplyMutators(extensionIdentifier) ==
    Mutators({PathMixed, FOO, ConstructorName}, EnvironmentVariableMutatorType,
             {ApplyValue(extensionIdentifier)}, {Undefined})

Env(keys, values) == [i \in 1..Len(keys) |-> [key |-> keys[i], value |-> values[i]]]

\* The environments handed to apply.
Envs ==
    { Env(<<>>, <<>>),
      Env(<<FOO>>, <<"X">>),
      Env(<<PathUpper>>, <<"X">>),
      Env(<<PathMixed>>, <<"">>),
      Env(<<PathUpper, PathLower>>, <<"X", "Y">>),
      Env(<<ConstructorName>>, <<"X">>) }

\* What the resolver may return for a string: here one substitution, which
\* tells a resolved value from the mutator's own.
ResolverResults(str) == {"<" \o str \o ">"}

Init ==
    /\ pc = "collecting"
    /\ isWindows \in BOOLEAN
    /\ Idle

Register ==
    /\ pc = "collecting"
    /\ TotalMutators(collections) < MaxApplyMutators
    /\ \E extensionIdentifier \in Extensions :
        \E mutator \in ApplyMutators(extensionIdentifier) :
          /\ MayContribute(collections, extensionIdentifier)
          /\ ~Contributes(collections, extensionIdentifier, mutator.variable)
          /\ collections' = CollectionsSet(collections, extensionIdentifier, mutator)
    /\ UNCHANGED <<pc, owningWorkspace, variableMap, otherVars, applyVars, diffVars>>

Construct ==
    /\ pc = "collecting"
    /\ owningWorkspace' = Undefined
    /\ variableMap' = Constructor(collections, Undefined)
    /\ pc' = "merged"
    /\ UNCHANGED <<collections, otherVars, applyVars, diffVars>>

\* Lines 74-78
LowerToActual(windows, e) ==
    IF windows THEN BuildLowerToActual(<<>>, MapKeys(e)) ELSE Undefined

\* applyToProcessEnvironment(env) without a resolver: no await is executed,
\* the call runs to its end.
ApplyWithoutResolver ==
    /\ pc = "merged"
    /\ \E e \in Envs :
          LET lower == LowerToActual(isWindows, e)
              run == RunWithoutResolver(variableMap, isWindows, lower,
                                        [env |-> e, log |-> <<>>],
                                        FirstPosition(variableMap))
          IN  /\ env0' = e
              /\ lowerToActualVariableNames' = lower
              /\ env' = run.env
              /\ resolverLog' = run.log
    /\ variableResolver' = FALSE
    /\ position' = <<Len(variableMap) + 1, 1>>
    /\ outstanding' = <<>>
    /\ pc' = "done"
    /\ UNCHANGED <<collections, owningWorkspace, variableMap, isWindows,
                   otherVars, diffVars>>

\* applyToProcessEnvironment(env, variableResolver) up to its first await.
ApplyBegin ==
    /\ pc = "merged"
    /\ \E e \in Envs :
          /\ env0' = e
          /\ env' = e
          /\ lowerToActualVariableNames' = LowerToActual(isWindows, e)
    /\ variableResolver' = TRUE
    /\ position' = FirstPosition(variableMap)
    /\ outstanding' = ResolverCalls(variableMap, position')
    /\ resolverLog' = outstanding'
    /\ pc' = IF outstanding' = <<>> THEN "done" ELSE "awaiting"
    /\ UNCHANGED <<collections, owningWorkspace, variableMap, isWindows,
                   otherVars, diffVars>>

\* The awaited promise is fulfilled: lines 88-98 for this mutator, then the
\* loops go on to the next await or to the end.
ResolverFulfilled ==
    /\ pc = "awaiting"
    /\ outstanding /= <<>>
    /\ LET call == Head(outstanding)
           key == ActualVariable(isWindows, lowerToActualVariableNames,
                                 variableMap[call.position[1]].key)
           next == NextPosition(variableMap, position)
           calls == ResolverCalls(variableMap, next)
       IN  \E value \in ResolverResults(call.value) :
             /\ env' = ApplyAt(variableMap, isWindows, lowerToActualVariableNames,
                               env, call.position, value)
             /\ position' = next
             /\ outstanding' = Tail(outstanding) \o calls
             /\ resolverLog' = resolverLog
                                 \o <<WriteEvent(call.position, key, value)>> \o calls
             /\ pc' = IF outstanding' = <<>> THEN "done" ELSE "awaiting"
    /\ UNCHANGED <<collections, owningWorkspace, variableMap, isWindows, env0,
                   variableResolver, lowerToActualVariableNames, otherVars, diffVars>>

RejectEvent(pos) == [op |-> "reject", position |-> pos, key |-> <<>>, value |-> ""]

\* A loop that caught the rejection and went on with the next mutator.
OnRejectedContinue(map, pos) ==
    [pc |-> IF Exhausted(map, NextPosition(map, pos)) THEN "done" ELSE "awaiting",
     position |-> NextPosition(map, pos),
     calls |-> ResolverCalls(map, NextPosition(map, pos))]

\* Line 82 is in no try block: a rejection leaves both loops and rejects
\* the promise of applyToProcessEnvironment.
OnRejected(map, pos) ==
    [pc |-> "failed", position |-> pos, calls |-> <<>>]

\* The awaited promise is rejected.
ResolverRejected ==
    /\ pc = "awaiting"
    /\ outstanding /= <<>>
    /\ LET call == Head(outstanding)
           after == OnRejected(variableMap, position)
       IN  /\ pc' = after.pc
           /\ position' = after.position
           /\ outstanding' = Tail(outstanding) \o after.calls
           /\ resolverLog' = resolverLog \o <<RejectEvent(call.position)>>
                                \o after.calls
    /\ UNCHANGED <<collections, owningWorkspace, variableMap, isWindows, env, env0,
                   variableResolver, lowerToActualVariableNames, otherVars, diffVars>>

Next ==
    \/ Register
    \/ Construct
    \/ ApplyWithoutResolver
    \/ ApplyBegin
    \/ ResolverFulfilled
    \/ ResolverRejected

Spec == Init /\ [][Next]_vars

-----------------------------------------------------------------------------
(* Scenario 3: two merged collections are built and compared               *)

\* Bounds of the diff scenarios: mutators of `this` and `other` together.
MaxDiffMutators == 3
DiffExtensions == {"ext.a", "ext.b"}
DiffMutators ==
    Mutators({FOO, PathMixed}, {TypeAppend, TypeReplace}, {"x", "y"},
             {Undefined, Scope(Folder1)})

InitDiff ==
    /\ pc = "collecting"
    /\ isWindows = FALSE
    /\ Idle

RegisterThis ==
    /\ pc = "collecting"
    /\ TotalMutators(collections) < MaxDiffMutators
    /\ \E extensionIdentifier \in DiffExtensions, mutator \in DiffMutators :
          /\ MayContribute(collections, extensionIdentifier)
          /\ ~Contributes(collections, extensionIdentifier, mutator.variable)
          /\ collections' = CollectionsSet(collections, extensionIdentifier, mutator)
    /\ UNCHANGED <<pc, owningWorkspace, variableMap, otherVars, applyVars, diffVars>>

\* Both collections are merged without an owning workspace: what a scope
\* filter would drop is a collection without those mutators.
ConstructThis ==
    /\ pc = "collecting"
    /\ owningWorkspace' = Undefined
    /\ variableMap' = Constructor(collections, Undefined)
    /\ pc' = "merged"
    /\ UNCHANGED <<collections, otherVars, applyVars, diffVars>>

\* this.diff(this)
DiffSelf ==
    /\ pc = "merged"
    /\ selfDiffResult' = diff(variableMap, variableMap)
    /\ pc' = "collectingOther"
    /\ UNCHANGED <<collections, owningWorkspace, variableMap, otherVars, applyVars,
                   diffResult, reverseDiffResult>>

\* The collections of `other`; its extensions register in any order.
RegisterOther ==
    /\ pc = "collectingOther"
    /\ TotalMutators(collections) + TotalMutators(otherCollections) < MaxDiffMutators
    /\ \E extensionIdentifier \in DiffExtensions, mutator \in DiffMutators :
          /\ ~Contributes(otherCollections, extensionIdentifier, mutator.variable)
          /\ otherCollections' =
                CollectionsSet(otherCollections, extensionIdentifier, mutator)
    /\ UNCHANGED <<pc, collections, owningWorkspace, variableMap,
                   otherOwningWorkspace, otherVariableMap, applyVars, diffVars>>

ConstructOther ==
    /\ pc = "collectingOther"
    /\ otherOwningWorkspace' = owningWorkspace
    /\ otherVariableMap' = Constructor(otherCollections, owningWorkspace)
    /\ pc' = "built"
    /\ UNCHANGED <<collections, owningWorkspace, variableMap, otherCollections,
                   applyVars, diffVars>>

\* this.diff(other)
Diff ==
    /\ pc = "built"
    /\ diffResult' = diff(variableMap, otherVariableMap)
    /\ pc' = "diffed"
    /\ UNCHANGED <<collections, owningWorkspace, variableMap, otherVars, applyVars,
                   reverseDiffResult, selfDiffResult>>

\* other.diff(this)
DiffReverse ==
    /\ pc = "diffed"
    /\ reverseDiffResult' = diff(otherVariableMap, variableMap)
    /\ pc' = "reversed"
    /\ UNCHANGED <<collections, owningWorkspace, variableMap, otherVars, applyVars,
                   diffResult, selfDiffResult>>

NextDiff ==
    \/ RegisterThis
    \/ ConstructThis
    \/ DiffSelf
    \/ RegisterOther
    \/ ConstructOther
    \/ Diff
    \/ DiffReverse

SpecDiff == InitDiff /\ [][NextDiff]_vars

-----------------------------------------------------------------------------
(* Vocabulary of the properties, read off the constructor's arguments      *)

\* Every contribution: an extension, its place in the registration order,
\* and one mutator of its collection.
Contributions(colls) ==
    UNION { { [extensionIdentifier |-> colls[i].key, registered |-> i,
               mutator |-> colls[i].value.map[j].value] :
                 j \in 1..Len(colls[i].value.map) } : i \in 1..Len(colls) }

\* The mutator is honoured under the owning workspace: there is no owning
\* workspace, or the mutator names no folder, or it names the owning one.
Honoured(owning, mutator) ==
    \/ owning = Undefined
    \/ mutator.scope = Undefined
    \/ mutator.scope.workspaceFolder = Undefined
    \/ mutator.scope.workspaceFolder.uri.fsPath = owning.uri.fsPath

\* The mutator names a workspace folder.
Scoped(mutator) ==
    /\ mutator.scope /= Undefined
    /\ mutator.scope.workspaceFolder /= Undefined

\* The merged sequence of a variable, empty when the map has no entry.
Sequence(map, variable) ==
    IF \E i \in 1..Len(map) : map[i].key = variable
    THEN map[CHOOSE i \in 1..Len(map) : map[i].key = variable].value
    ELSE <<>>

\* The contribution as the constructor stores it.
Owned(c) ==
    [extensionIdentifier |-> c.extensionIdentifier,
     value |-> c.mutator.value, type |-> c.mutator.type,
     scope |-> c.mutator.scope, variable |-> c.mutator.variable]

Appears(map, c) ==
    \E i \in 1..Len(Sequence(map, c.mutator.variable)) :
        Sequence(map, c.mutator.variable)[i] = Owned(c)

\* Place of an extension in the registration order of `colls`.
Registered(colls, extensionIdentifier) ==
    CHOOSE i \in 1..Len(colls) : colls[i].key = extensionIdentifier

\* An honoured Replace for the same variable was registered before c.
Preceded(colls, owning, c) ==
    \E r \in Contributions(colls) :
        /\ r.registered < c.registered
        /\ r.mutator.variable = c.mutator.variable
        /\ r.mutator.type = TypeReplace
        /\ Honoured(owning, r.mutator)

-----------------------------------------------------------------------------
(* C1 - Replace short-circuit.  Once merged: if an extension contributes a *)
(* Replace for a variable and the scope filter does not drop it, the       *)
(* merged sequence of that variable holds no mutator of an extension       *)
(* registered after it, whatever the type of the later mutators.           *)
C1_ReplaceShortCircuit ==
    pc = "merged" =>
        \A c \in Contributions(collections) :
            (c.mutator.type = TypeReplace /\ Honoured(owningWorkspace, c.mutator)) =>
                \A i \in 1..Len(Sequence(variableMap, c.mutator.variable)) :
                    Registered(collections,
                        Sequence(variableMap, c.mutator.variable)[i].extensionIdentifier)
                      <= c.registered

\* C1's case: an honoured Replace is merged, and an honoured mutator of a
\* later extension for the same variable has been left out.
C1_Witness ==
    /\ pc = "merged"
    /\ \E c, d \in Contributions(collections) :
          /\ c.mutator.type = TypeReplace
          /\ Honoured(owningWorkspace, c.mutator)
          /\ Appears(variableMap, c)
          /\ d.registered > c.registered
          /\ d.mutator.variable = c.mutator.variable
          /\ Honoured(owningWorkspace, d.mutator)
          /\ ~Appears(variableMap, d)

(* C2 as stated - once merged, a sequence whose first entry is a Replace   *)
(* has exactly one entry.                                                  *)
C2_ReplaceIsAlone ==
    pc = "merged" =>
        \A k \in 1..Len(variableMap) :
            variableMap[k].value[1].type = TypeReplace =>
                Len(variableMap[k].value) = 1

(* C2 as amended - once merged, a sequence whose first entry is a Replace  *)
(* holds no second Replace and no mutator of an extension registered after *)
(* the replacing one; behind the Replace it holds every honoured mutator   *)
(* of the extensions registered before it, so it has exactly one entry     *)
(* only when there is none.                                                *)
C2_ReplaceFirst ==
    pc = "merged" =>
        \A k \in 1..Len(variableMap) :
            LET sequence == variableMap[k].value
                first == Registered(collections, sequence[1].extensionIdentifier)
                earlier == { c \in Contributions(collections) :
                               /\ c.mutator.variable = variableMap[k].key
                               /\ c.registered < first
                               /\ Honoured(owningWorkspace, c.mutator) }
            IN  sequence[1].type = TypeReplace =>
                  /\ Len(sequence) = 1 + Cardinality(earlier)
                  /\ \A i \in 2..Len(sequence) :
                        /\ sequence[i].type /= TypeReplace
                        /\ \E c \in earlier : sequence[i] = Owned(c)

\* C2's case: a sequence that starts with a Replace and goes on.
C2_Witness ==
    /\ pc = "merged"
    /\ \E k \in 1..Len(variableMap) :
          /\ variableMap[k].value[1].type = TypeReplace
          /\ Len(variableMap[k].value) > 1

(* C4 as stated - scope filtering.  Once merged: a mutator scoped to a     *)
(* folder other than the owning one does not appear in the merged          *)
(* sequence; one scoped to the owning folder, or merged without an owning  *)
(* folder, does appear.                                                    *)
C4_ScopeFilterAppears ==
    pc = "merged" =>
        \A c \in Contributions(collections) :
            Scoped(c.mutator) =>
                (Appears(variableMap, c) <=> Honoured(owningWorkspace, c.mutator))

(* C4 as amended - once merged, a mutator scoped to a folder other than    *)
(* the owning one does not appear; any other mutator (scoped to the owning *)
(* folder, merged without an owning folder, or without a scope) appears    *)
(* unless an honoured Replace of an earlier extension for its variable     *)
(* short-circuits it.                                                      *)
C4_ScopeFilter ==
    pc = "merged" =>
        \A c \in Contributions(collections) :
            Appears(variableMap, c) <=>
                /\ Honoured(owningWorkspace, c.mutator)
                /\ ~Preceded(collections, owningWorkspace, c)

\* C4's cases: one mutator dropped for its folder, one kept for its folder.
C4_Witness ==
    /\ pc = "merged"
    /\ owningWorkspace /= Undefined
    /\ \E c, d \in Contributions(collections) :
          /\ Scoped(c.mutator) /\ ~Honoured(owningWorkspace, c.mutator)
          /\ ~Appears(variableMap, c)
          /\ Scoped(d.mutator) /\ Honoured(owningWorkspace, d.mutator)
          /\ Appears(variableMap, d)

\* The places of the Replace mutators in a sequence.
Replaces(sequence) ==
    { i \in 1..Len(sequence) : sequence[i].type = TypeReplace }

(* C13 - shape of the merged map.  Once merged, for any collections,       *)
(* registration order and owning workspace: every variable of variableMap  *)
(* has a sequence that is not empty, the sequence holds at most one        *)
(* Replace, and a Replace it holds is its first entry.                     *)
C13_MergedShape ==
    pc = "merged" =>
        \A k \in 1..Len(variableMap) :
            /\ Len(variableMap[k].value) > 0
            /\ Cardinality(Replaces(variableMap[k].value)) <= 1
            /\ Replaces(variableMap[k].value) \subseteq {1}

\* C13's case: two extensions contribute an honoured Replace for a variable
\* to which an earlier extension contributes too; the sequence is longer
\* than one and only one of the two Replaces is in it.
C13_Witness ==
    /\ pc = "merged"
    /\ \E c, d \in Contributions(collections) :
          /\ c.registered < d.registered
          /\ c.mutator.variable = d.mutator.variable
          /\ c.mutator.type = TypeReplace /\ d.mutator.type = TypeReplace
          /\ Honoured(owningWorkspace, c.mutator)
          /\ Honoured(owningWorkspace, d.mutator)
          /\ Len(Sequence(variableMap, c.mutator.variable)) > 1
          /\ Appears(variableMap, c) /\ ~Appears(variableMap, d)

\* C13's other case: the only mutator of a variable is dropped by the scope
\* filter, and the variable has no entry in variableMap.
C13_FilteredWitness ==
    /\ pc = "merged"
    /\ \E c \in Contributions(collections) :
          /\ ~Honoured(owningWorkspace, c.mutator)
          /\ ~MapHas(variableMap, c.mutator.variable)

-----------------------------------------------------------------------------
(* Vocabulary of the properties of apply                                   *)

\* Value of a key in an environment, "" when the key is absent.
ValueOf(e, key) ==
    IF \E i \in 1..Len(e) : e[i].key = key
    THEN e[CHOOSE i \in 1..Len(e) : e[i].key = key].value
    ELSE ""

KeysOf(e) == { e[i].key : i \in 1..Len(e) }

\* The entries of the log of one kind, in order.
Events(log, op) == SelectSeq(log, LAMBDA event : event.op = op)

\* The key that apply wrote for the k-th variable of the merged map; the
\* variable's own name when nothing was written for it.
WrittenKey(log, map, k) ==
    IF \E n \in 1..Len(log) : log[n].op = "write" /\ log[n].position[1] = k
    THEN log[CHOOSE n \in 1..Len(log) :
                 log[n].op = "write" /\ log[n].position[1] = k].key
    ELSE map[k].key

\* The extensions' mutators for a variable applied to a value one after the
\* other, the extension registered last first.
RECURSIVE LastRegisteredFirst(_, _, _)
LastRegisteredFirst(colls, variable, value) ==
    IF colls = <<>> THEN value
    ELSE LET last == colls[Len(colls)]
             mine == { c \in Contributions(<<last>>) : c.mutator.variable = variable }
             mutator == (CHOOSE c \in mine : TRUE).mutator
             applied == IF mine = {} THEN value
                        ELSE IF mutator.type = TypeAppend THEN value \o mutator.value
                        ELSE IF mutator.type = TypePrepend THEN mutator.value \o value
                        ELSE mutator.value
         IN  LastRegisteredFirst(SubSeq(colls, 1, Len(colls) - 1), variable, applied)

\* No extension replaces the variable.
OnlyAppendsAndPrepends(colls, variable) ==
    \A c \in Contributions(colls) :
        c.mutator.variable = variable => c.mutator.type /= TypeReplace

(* C3 - reverse-registration-order application.  After merge and an apply  *)
(* without resolver, a variable to which the extensions contribute only    *)
(* Append and Prepend mutators, none of them scope-filtered, has the value *)
(* obtained from its initial value by applying the mutator of the          *)
(* extension registered last first and that of the extension registered    *)
(* first last.                                                             *)
C3_ReverseRegistrationOrder ==
    (pc = "done" /\ ~variableResolver) =>
        \A k \in 1..Len(variableMap) :
            LET variable == variableMap[k].key
                key == WrittenKey(resolverLog, variableMap, k)
            IN  ( /\ OnlyAppendsAndPrepends(collections, variable)
                  /\ \A c \in Contributions(collections) :
                        Honoured(owningWorkspace, c.mutator) )
                => ValueOf(env, key)
                     = LastRegisteredFirst(collections, variable, ValueOf(env0, key))

\* C3's cases: ext.a appends "a" and ext.b appends "b" to a variable that is
\* not set, which gives "ba"; ext.a prepends "a" and ext.b appends "b" to
\* FOO = "X", which gives "aXb".
C3_Witness ==
    /\ pc = "done" /\ ~variableResolver /\ ~isWindows
    /\ \/ /\ collections =
                << [key |-> "ext.a", value |-> [map |->
                      << [key |-> PathMixed,
                          value |-> Mutator(PathMixed, TypeAppend, "a", Undefined)] >>]],
                   [key |-> "ext.b", value |-> [map |->
                      << [key |-> PathMixed,
                          value |-> Mutator(PathMixed, TypeAppend, "b", Undefined)] >>]] >>
          /\ env0 = <<>>
          /\ env = Env(<<PathMixed>>, <<"ba">>)
       \/ /\ collections =
                << [key |-> "ext.a", value |-> [map |->
                      << [key |-> FOO,
                          value |-> Mutator(FOO, TypePrepend, "a", Undefined)] >>]],
                   [key |-> "ext.b", value |-> [map |->
                      << [key |-> FOO,
                          value |-> Mutator(FOO, TypeAppend, "b", Undefined)] >>]] >>
          /\ env0 = Env(<<FOO>>, <<"X">>)
          /\ env = Env(<<FOO>>, <<"aXb">>)

\* The keys of the initial environment that equal the name ignoring case.
CaseInsensitiveMatches(e, variable) ==
    { key \in KeysOf(e) : toLowerCase(key) = toLowerCase(variable) }

\* Where the claim C5 wants the writes for a variable to go.
WritesAsC5(windows, e0, e, key, variable) ==
    IF windows /\ CaseInsensitiveMatches(e0, variable) /= {}
    THEN /\ key \in CaseInsensitiveMatches(e0, variable)
         /\ variable \notin KeysOf(e0) => variable \notin KeysOf(e)
    ELSE key = variable

(* C5 - case-insensitive apply.  On Windows, when the environment passed   *)
(* in holds a key equal to a merged variable's name ignoring case, every   *)
(* write for that variable goes to such an existing key and no key spelled *)
(* as the variable is created; without such a key, and always on the other *)
(* platforms, the write goes to the variable's name verbatim.              *)
C5_CaseInsensitiveApply ==
    \A n \in 1..Len(resolverLog) :
        resolverLog[n].op = "write" =>
            WritesAsC5(isWindows, env0, env, resolverLog[n].key,
                       variableMap[resolverLog[n].position[1]].key)

\* The part of C5 that the code keeps: the same, for the variables whose
\* lower-cased name is not a name inherited from Object.prototype.
C5_ExceptInheritedNames ==
    \A n \in 1..Len(resolverLog) :
        ( /\ resolverLog[n].op = "write"
          /\ toLowerCase(variableMap[resolverLog[n].position[1]].key)
                \notin ObjectPrototypeNames )
        => WritesAsC5(isWindows, env0, env, resolverLog[n].key,
                      variableMap[resolverLog[n].position[1]].key)

\* C5's case: on Windows "Path" was applied to an environment with "PATH".
C5_CaseWitness ==
    /\ pc = "done" /\ isWindows
    /\ env0 = Env(<<PathUpper>>, <<"X">>)
    /\ KeysOf(env) = {PathUpper}
    /\ ValueOf(env, PathUpper) /= "X"

\* The positions of the merged map in iteration order: variable by
\* variable, front to back within a variable.
RECURSIVE Flatten(_, _)
Flatten(map, k) ==
    IF k > Len(map) THEN <<>>
    ELSE [j \in 1..Len(map[k].value) |-> <<k, j>>] \o Flatten(map, k + 1)

\* The value of the k-th variable after the given writes, from `value`.
RECURSIVE Replayed(_, _, _, _)
Replayed(map, writes, k, value) ==
    IF writes = <<>> THEN value
    ELSE LET w == Head(writes)
             type == map[w.position[1]].value[w.position[2]].type
             written == IF w.position[1] /= k THEN value
                        ELSE IF type = TypeAppend THEN value \o w.value
                        ELSE IF type = TypePrepend THEN w.value \o value
                        ELSE w.value
         IN  Replayed(map, Tail(writes), k, written)

\* The key apply uses for the k-th variable.
KeyOf(k) ==
    ActualVariable(isWindows, lowerToActualVariableNames, variableMap[k].key)

(* C9 - resolver failure.  When the resolver fails for a mutator, apply    *)
(* fails at once: nothing is resolved or applied after the failure, the    *)
(* mutators before the failing one, and only they, have been applied, so   *)
(* that every variable before the failing one has its final value, the     *)
(* failing variable keeps what its earlier mutators made of it, and the    *)
(* variables after it and every other key are as they were passed in.      *)
C9_ResolverFailure ==
    \A n \in 1..Len(resolverLog) :
        resolverLog[n].op = "reject" =>
            LET failing == resolverLog[n].position
                writes == Events(resolverLog, "write")
                all == Flatten(variableMap, 1)
                keys == { KeyOf(k) : k \in 1..Len(variableMap) }
            IN  /\ n = Len(resolverLog)
                /\ pc = "failed"
                /\ outstanding = <<>>
                /\ Len(writes) < Len(all)
                /\ all[Len(writes) + 1] = failing
                /\ \A m \in 1..Len(writes) : writes[m].position = all[m]
                /\ \A k \in 1..Len(variableMap) :
                      /\ ValueOf(env, KeyOf(k))
                           = Replayed(variableMap, writes, k, ValueOf(env0, KeyOf(k)))
                      /\ k > failing[1] =>
                           /\ KeyOf(k) \in KeysOf(env) <=> KeyOf(k) \in KeysOf(env0)
                           /\ ValueOf(env, KeyOf(k)) = ValueOf(env0, KeyOf(k))
                /\ \A key \in (KeysOf(env) \cup KeysOf(env0)) \ keys :
                      /\ key \in KeysOf(env) /\ key \in KeysOf(env0)
                      /\ ValueOf(env, key) = ValueOf(env0, key)

\* C9's case: the resolver failed for the second of three variables, after
\* the first one had been written.
C9_Witness ==
    /\ pc = "failed"
    /\ Len(variableMap) = 3
    /\ resolverLog[Len(resolverLog)].op = "reject"
    /\ resolverLog[Len(resolverLog)].position = <<2, 1>>
    /\ env /= env0

(* C10 - sequential resolution.  With a resolver, apply calls it once per  *)
(* merged mutator, in the iteration order of the merged map and front to   *)
(* back within a variable, with the mutator's value; at most one call is   *)
(* outstanding, and a call is started only when the result of the previous *)
(* one has been written to the environment.                                *)
C10_SequentialResolution ==
    variableResolver =>
        LET calls == Events(resolverLog, "call")
            all == Flatten(variableMap, 1)
        IN  /\ Len(outstanding) <= 1
            /\ Len(calls) <= Len(all)
            /\ \A m \in 1..Len(calls) :
                  /\ calls[m].position = all[m]
                  /\ calls[m].value
                       = variableMap[all[m][1]].value[all[m][2]].value
            /\ pc = "done" => Len(calls) = Len(all)
            /\ \A n \in 2..Len(resolverLog) :
                  resolverLog[n].op = "call" =>
                      /\ resolverLog[n - 1].op = "write"
                      /\ resolverLog[n - 2].op = "call"
                      /\ resolverLog[n - 1].position = resolverLog[n - 2].position
                      /\ \E m \in 1..Len(calls) - 1 :
                            /\ calls[m].position = resolverLog[n - 1].position
                            /\ calls[m + 1].position = resolverLog[n].position

\* C10's case: an apply with a resolver went through three mutators of at
\* least two variables.
C10_Witness ==
    /\ pc = "done"
    /\ variableResolver
    /\ Len(Events(resolverLog, "call")) = 3
    /\ Len(variableMap) = 2

\* The key names a variable of the merged map; on Windows, where section
\* 4.2 matches names ignoring case, it does so ignoring case.
InVariableSet(windows, map, key) ==
    \E k \in 1..Len(map) :
        IF windows THEN toLowerCase(map[k].key) = toLowerCase(key)
        ELSE map[k].key = key

\* The keys of the two environments that name no merged variable are the
\* same, with the same values.
FrameKept(windows, map, e0, e) ==
    \A key \in KeysOf(e0) \cup KeysOf(e) :
        ~InVariableSet(windows, map, key) =>
            /\ key \in KeysOf(e0)
            /\ key \in KeysOf(e)
            /\ ValueOf(e, key) = ValueOf(e0, key)

(* C11 - frame of apply.  During and after applyToProcessEnvironment, with *)
(* or without resolver, every write goes to a key that names a merged      *)
(* variable, every key of the environment that names no merged variable    *)
(* has the value it was passed in with, and no such key is created.        *)
C11_FrameOfApply ==
    pc \in {"awaiting", "done", "failed"} =>
        /\ \A n \in 1..Len(resolverLog) :
              resolverLog[n].op = "write" =>
                  InVariableSet(isWindows, variableMap, resolverLog[n].key)
        /\ FrameKept(isWindows, variableMap, env0, env)

\* The part of C11 that the code keeps: the same, when no merged variable's
\* lower-cased name is a name inherited from Object.prototype on Windows.
C11_ExceptInheritedNames ==
    ( /\ pc \in {"awaiting", "done", "failed"}
      /\ isWindows => \A k \in 1..Len(variableMap) :
                         toLowerCase(variableMap[k].key) \notin ObjectPrototypeNames )
    => /\ \A n \in 1..Len(resolverLog) :
             resolverLog[n].op = "write" =>
                 InVariableSet(isWindows, variableMap, resolverLog[n].key)
       /\ FrameKept(isWindows, variableMap, env0, env)

\* A case in which the frame is kept: FOO = "X" went through an apply that
\* wrote other variables.
C11_FrameWitness ==
    /\ pc = "done"
    /\ env0 = Env(<<FOO>>, <<"X">>)
    /\ ~InVariableSet(isWindows, variableMap, FOO)
    /\ Len(env) > 1
    /\ ValueOf(env, FOO) = "X"

(* C12 as stated - a Replace fully determines the variable.  After merge   *)
(* and an apply without resolver, a variable whose merged sequence holds a *)
(* Replace is set to exactly the value of that Replace, whatever its       *)
(* initial value and whatever the other extensions contribute.             *)
C12_ReplaceDetermines ==
    (pc = "done" /\ ~variableResolver) =>
        \A k \in 1..Len(variableMap) :
            \A i \in 1..Len(variableMap[k].value) :
                variableMap[k].value[i].type = TypeReplace =>
                    /\ KeyOf(k) \in KeysOf(env)
                    /\ ValueOf(env, KeyOf(k)) = variableMap[k].value[i].value

(* C12 as amended - after merge and an apply without resolver, the key     *)
(* written for a variable whose merged sequence holds a Replace, when no   *)
(* other merged variable is written to that key, has the                   *)
(* value of that Replace with the Append and Prepend mutators of the       *)
(* extensions registered before the replacing one applied to it, the one   *)
(* registered last first; the initial value and the extensions registered  *)
(* after the replacing one have no part in it, and the value is exactly    *)
(* that of the Replace when the sequence holds nothing else.               *)
C12_ReplaceThenEarlier ==
    (pc = "done" /\ ~variableResolver) =>
        \A k \in 1..Len(variableMap) :
            \A i \in 1..Len(variableMap[k].value) :
                LET sequence == variableMap[k].value
                    replacing == Registered(collections, sequence[i].extensionIdentifier)
                IN  ( /\ sequence[i].type = TypeReplace
                      /\ \A other \in 1..Len(variableMap) :
                            other /= k => KeyOf(other) /= KeyOf(k) ) =>
                      /\ KeyOf(k) \in KeysOf(env)
                      /\ ValueOf(env, KeyOf(k))
                           = LastRegisteredFirst(SubSeq(collections, 1, replacing),
                                                 variableMap[k].key, "")
                      /\ Len(sequence) = 1 =>
                           ValueOf(env, KeyOf(k)) = sequence[i].value

\* C12's case: ext.a appends "a" to FOO and ext.b replaces it by "b"; the
\* apply to FOO = "X" gives "ba".
C12_Witness ==
    /\ pc = "done" /\ ~variableResolver
    /\ collections =
          << [key |-> "ext.a", value |-> [map |->
                << [key |-> FOO,
                    value |-> Mutator(FOO, TypeAppend, "a", Undefined)] >>]],
             [key |-> "ext.b", value |-> [map |->
                << [key |-> FOO,
                    value |-> Mutator(FOO, TypeReplace, "b", Undefined)] >>]] >>
    /\ env0 = Env(<<FOO>>, <<"X">>)
    /\ env = Env(<<FOO>>, <<"ba">>)

-----------------------------------------------------------------------------
(* Vocabulary of the properties of diff                                    *)

\* The three maps of a diff result; an absent result counts as three empty
\* maps.
AddedOf(result) == IF result = Undefined THEN <<>> ELSE result.added
ChangedOf(result) == IF result = Undefined THEN <<>> ELSE result.changed
RemovedOf(result) == IF result = Undefined THEN <<>> ELSE result.removed

VariablesOf(map) == { map[i].key : i \in 1..Len(map) }

\* The mutators of `sequence` whose extension has no mutator in `others`.
NotIn(sequence, others) ==
    SelectSeq(sequence,
              LAMBDA m : \A i \in 1..Len(others) :
                             others[i].extensionIdentifier /= m.extensionIdentifier)

\* The mutator of an extension in a sequence that has one.
MutatorOf(sequence, extensionIdentifier) ==
    sequence[CHOOSE i \in 1..Len(sequence) :
                 sequence[i].extensionIdentifier = extensionIdentifier]

\* The index of the workspace folder of a mutator's scope, -1 without one.
FolderIndex(m) ==
    IF m.scope = Undefined THEN -1
    ELSE IF m.scope.workspaceFolder = Undefined THEN -1
    ELSE m.scope.workspaceFolder.index

\* The two mutators differ in type, value or workspace-folder index.
Differs(m, o) ==
    m.type /= o.type \/ m.value /= o.value \/ FolderIndex(m) /= FolderIndex(o)

\* For the mutators of `current`, in their order, whose extension has a
\* different mutator in `other`: that mutator of `other`.
NewValues(current, other) ==
    LET changed ==
          SelectSeq(current,
                    LAMBDA m : \E i \in 1..Len(other) :
                        /\ other[i].extensionIdentifier = m.extensionIdentifier
                        /\ Differs(m, other[i]))
    IN  [i \in 1..Len(changed) |-> MutatorOf(other, changed[i].extensionIdentifier)]

(* C6 - diff symmetry.  For two merged collections X and Y, the added map  *)
(* of X.diff(Y) equals the removed map of Y.diff(X): the same variables in *)
(* the same order, each with the same mutators in the same order, namely   *)
(* the mutators of Y whose extension has none in X for that variable.      *)
C6_DiffSymmetry ==
    pc = "reversed" =>
        /\ AddedOf(diffResult) = RemovedOf(reverseDiffResult)
        /\ RemovedOf(diffResult) = AddedOf(reverseDiffResult)
        /\ \A variable \in VariablesOf(otherVariableMap) :
              Sequence(AddedOf(diffResult), variable)
                = NotIn(Sequence(otherVariableMap, variable),
                        Sequence(variableMap, variable))
        /\ VariablesOf(AddedOf(diffResult)) \subseteq VariablesOf(otherVariableMap)

\* C6's case: a variable that both collections have, to which `other` adds
\* the mutator of one more extension.
C6_Witness ==
    /\ pc = "reversed"
    /\ \E variable \in VariablesOf(variableMap) \cap VariablesOf(otherVariableMap) :
          /\ Len(Sequence(AddedOf(diffResult), variable)) = 1
          /\ Len(Sequence(otherVariableMap, variable)) = 2
          /\ RemovedOf(reverseDiffResult) = AddedOf(diffResult)

(* C7 - diff idempotence.  For a merged collection X, X.diff(X) is absent  *)
(* (undefined): not an object of three empty maps, and nothing added,      *)
(* changed or removed.                                                     *)
C7_DiffIdempotence ==
    pc \in {"collectingOther", "built", "diffed", "reversed"} =>
        selfDiffResult = Undefined

\* C7's case: a collection with two variables, one of them with the
\* mutators of two extensions, compared with itself.
C7_Witness ==
    /\ pc = "collectingOther"
    /\ Len(variableMap) = 2
    /\ \E k \in 1..Len(variableMap) : Len(variableMap[k].value) = 2

(* C8 - changed reports the new value.  For a variable that both           *)
(* collections have, changed[variable] holds, in the order of current,     *)
(* exactly one entry for every extension that contributes to the variable  *)
(* in both with a different type, value or workspace-folder index, and the *)
(* entry is the mutator of other; a variable that other lacks, or for      *)
(* which no mutator differs, has no changed entry.                         *)
C8_ChangedReportsNewValue ==
    pc \in {"diffed", "reversed"} =>
        /\ VariablesOf(ChangedOf(diffResult))
              \subseteq VariablesOf(variableMap) \cap VariablesOf(otherVariableMap)
        /\ \A variable \in VariablesOf(variableMap) :
              Sequence(ChangedOf(diffResult), variable)
                = NewValues(Sequence(variableMap, variable),
                            Sequence(otherVariableMap, variable))
        /\ \A k \in 1..Len(ChangedOf(diffResult)) :
              LET entries == ChangedOf(diffResult)[k].value
              IN  /\ Len(entries) > 0
                  /\ \A i, j \in 1..Len(entries) :
                        entries[i].extensionIdentifier = entries[j].extensionIdentifier
                          => i = j

\* C8's case: an extension appends "x" in current and "y" in other; the one
\* changed entry is the mutator with "y".
C8_Witness ==
    /\ pc = "diffed"
    /\ \E variable \in VariablesOf(variableMap) :
          LET current == Sequence(variableMap, variable)
              changed == Sequence(ChangedOf(diffResult), variable)
          IN  /\ Len(changed) = 1
              /\ changed[1].type = TypeAppend /\ changed[1].value = "y"
              /\ MutatorOf(current, changed[1].extensionIdentifier).type = TypeAppend
              /\ MutatorOf(current, changed[1].extensionIdentifier).value = "x"
              /\ changed[1] \in { Sequence(otherVariableMap, variable)[i] :
                                   i \in 1..Len(Sequence(otherVariableMap, variable)) }

====
